---- MODULE Spec2Model ----
(***************************************************************************)
(* Sharecart1000 codec (src/src/lib.rs): Sharecart::from_str decodes the   *)
(* text of an o_o.ini file into a Sharecart value, Sharecart::to_string   *)
(* encodes a Sharecart value as that text.                                 *)
(*                                                                         *)
(* Text is a sequence of Unicode code points (Rust `String`/`&str`, always *)
(* valid UTF-8); a byte vector (`Vec<u8>`) is a sequence of 0..255.        *)
(* The ini crate is not part of the repository: load_from_str below is the *)
(* Section Parser of the specification (sections, Key=Value lines, a       *)
(* syntax error for anything else).  What that crate does with quotes,     *)
(* escapes, comment characters and surrounding whitespace is not modelled, *)
(* and the values explored here hold none of them.                         *)
(***************************************************************************)
EXTENDS Integers, Sequences, FiniteSets

\* ---------------------------------------------------------------- bounds
\* How many bytes past the take() limits the generated names and values go.
MaxOver == 2

\* ------------------------------------------------------------- constants
NameTake == 1023      \* to_string: self.player_name.bytes().take(1023)
LoadTake == 1024      \* from_str:  v.bytes().take(1024)
CoordMod == 1024      \* % 1024 on map_x / map_y
U16Max == 65535       \* u16::MAX, the range of parse::<u16>()
CR == 13              \* '\r'
LF == 10              \* '\n'
REPL == 65533         \* '\u{0FFFD}'

\* Code points used to build literals.
Ch_x == 120
Ch_eq == 61           \* '='
Ch_lbr == 91          \* '['
Ch_rbr == 93          \* ']'

\* String literals of the source, as code points.
L_Main == <<77, 97, 105, 110>>                                   \* "Main"
L_main == <<109, 97, 105, 110>>                                  \* "main"
L_MapX == <<77, 97, 112, 88>>                                    \* "MapX"
L_MapY == <<77, 97, 112, 89>>                                    \* "MapY"
L_Misc == <<77, 105, 115, 99>>                                   \* "Misc"
L_PlayerName == <<80, 108, 97, 121, 101, 114, 78, 97, 109, 101>> \* "PlayerName"
L_Switch == <<83, 119, 105, 116, 99, 104>>                       \* "Switch"
L_mapx == <<109, 97, 112, 120>>                                  \* "mapx"
L_mapy == <<109, 97, 112, 121>>                                  \* "mapy"
L_misc == <<109, 105, 115, 99>>                                  \* "misc"
L_playername == <<112, 108, 97, 121, 101, 114, 110, 97, 109, 101>>
L_switch == <<115, 119, 105, 116, 99, 104>>                      \* "switch"
L_true == <<116, 114, 117, 101>>                                 \* "true"
L_TRUE == <<84, 82, 85, 69>>                                     \* "TRUE"
L_FALSE == <<70, 65, 76, 83, 69>>                                \* "FALSE"

\* ------------------------------------------------------ std: str / bytes
Min(a, b) == IF a < b THEN a ELSE b

\* Iterator::take(n) on a sequence.
take(s, n) == SubSeq(s, 1, Min(n, Len(s)))

\* UTF-8 encoding of one code point.
Utf8(c) ==
  IF c < 128 THEN <<c>>
  ELSE IF c < 2048 THEN <<192 + (c \div 64), 128 + (c % 64)>>
  ELSE IF c < 65536
    THEN <<224 + (c \div 4096), 128 + ((c \div 64) % 64), 128 + (c % 64)>>
  ELSE <<240 + (c \div 262144), 128 + ((c \div 4096) % 64),
         128 + ((c \div 64) % 64), 128 + (c % 64)>>

\* str::bytes(): the UTF-8 bytes of a text (halving keeps the nesting shallow).
RECURSIVE bytesRange(_, _, _)
bytesRange(s, lo, hi) ==
  IF lo > hi THEN <<>>
  ELSE IF lo = hi THEN Utf8(s[lo])
  ELSE LET mid == (lo + hi) \div 2
       IN bytesRange(s, lo, mid) \o bytesRange(s, mid + 1, hi)

bytes(s) == bytesRange(s, 1, Len(s))

IsCont(b) == b >= 128 /\ b <= 191

\* Continuation bytes a lead byte announces (0: not a lead byte).
Need(b) ==
  IF b >= 194 /\ b <= 223 THEN 1
  ELSE IF b >= 224 /\ b <= 239 THEN 2
  ELSE IF b >= 240 /\ b <= 244 THEN 3
  ELSE 0

\* The range the byte following lead byte b must lie in.
SecondOk(b, c) ==
  IF b = 224 THEN c >= 160 /\ c <= 191
  ELSE IF b = 237 THEN c >= 128 /\ c <= 159
  ELSE IF b = 240 THEN c >= 144 /\ c <= 191
  ELSE IF b = 244 THEN c >= 128 /\ c <= 143
  ELSE IsCont(c)

\* Byte i continues the sequence opened by the lead byte k places before it.
ContinuesAt(b, i, k) ==
  /\ i - k >= 1
  /\ Need(b[i - k]) >= k
  /\ SecondOk(b[i - k], b[i - k + 1])
  /\ \A j \in (i - k + 1)..i : IsCont(b[j])

\* Byte i opens a unit of the lossy decoding: a character, or one maximal
\* invalid run that becomes U+FFFD.
UnitStart(b, i) == ~ \E k \in 1..3 : ContinuesAt(b, i, k)

\* Number of bytes of the unit opened at i.
UnitLen(b, i) ==
  LET ext == {k \in 1..3 : i + k <= Len(b) /\ ContinuesAt(b, i + k, k)}
  IN Cardinality(ext) + 1

\* The character the unit opened at i decodes to.
UnitChar(b, i) ==
  LET n == UnitLen(b, i)
  IN IF b[i] < 128 THEN b[i]
     ELSE IF Need(b[i]) = 0 \/ n # Need(b[i]) + 1 THEN REPL
     ELSE IF n = 2 THEN (b[i] - 192) * 64 + (b[i + 1] - 128)
     ELSE IF n = 3
       THEN (b[i] - 224) * 4096 + (b[i + 1] - 128) * 64 + (b[i + 2] - 128)
     ELSE (b[i] - 240) * 262144 + (b[i + 1] - 128) * 4096
          + (b[i + 2] - 128) * 64 + (b[i + 3] - 128)

\* String::from_utf8_lossy(&bytes).chars()
from_utf8_lossy(b) ==
  LET starts == SelectSeq([i \in 1..Len(b) |-> i], LAMBDA i : UnitStart(b, i))
  IN [j \in 1..Len(starts) |-> UnitChar(b, starts[j])]

\* char::to_lowercase for the code points below U+0100.
LowerChar(c) ==
  IF c >= 65 /\ c <= 90 THEN c + 32
  ELSE IF c >= 192 /\ c <= 222 /\ c # 215 THEN c + 32
  ELSE c

to_lowercase(s) == [i \in 1..Len(s) |-> LowerChar(s[i])]

\* format!("{}", n) for an unsigned integer.
RECURSIVE fmt(_)
fmt(n) == IF n < 10 THEN <<48 + n>> ELSE fmt(n \div 10) \o <<48 + (n % 10)>>

\* Value of a digit string, saturating just above u16::MAX.
RECURSIVE digitsValue(_, _, _)
digitsValue(d, i, acc) ==
  IF i > Len(d) THEN acc
  ELSE digitsValue(d, i + 1, Min(acc * 10 + (d[i] - 48), U16Max + 1))

\* str::parse::<u16>(): -1 stands for Err.
parse_u16(v) ==
  LET d == IF Len(v) > 0 /\ v[1] = 43 THEN Tail(v) ELSE v
  IN IF Len(d) = 0 THEN -1
     ELSE IF \E i \in 1..Len(d) : d[i] < 48 \/ d[i] > 48 + 9 THEN -1
     ELSE LET n == digitsValue(d, 1, 0) IN IF n > U16Max THEN -1 ELSE n

\* Result::unwrap_or
unwrap_or(r, dflt) == IF r = -1 THEN dflt ELSE r

\* -------------------------------------------- Section Parser (ini crate)
\* The lines of a text, split at '\n'.
lines(t) ==
  LET nl == SelectSeq([i \in 1..Len(t) |-> i], LAMBDA i : t[i] = LF)
  IN [j \in 1..(Len(nl) + 1) |->
        SubSeq(t, IF j = 1 THEN 1 ELSE nl[j - 1] + 1,
                  IF j <= Len(nl) THEN nl[j] - 1 ELSE Len(t))]

IsHeader(l) == Len(l) >= 2 /\ l[1] = Ch_lbr /\ l[Len(l)] = Ch_rbr

HasEq(l) == \E i \in 1..Len(l) : l[i] = Ch_eq

EqPos(l) == CHOOSE i \in 1..Len(l) : l[i] = Ch_eq /\ \A j \in 1..(i - 1) : l[j] # Ch_eq

\* A line the parser rejects: neither blank, nor [Section], nor Key=Value.
BadLine(l) == Len(l) > 0 /\ ~IsHeader(l) /\ (~HasEq(l) \/ l[1] = Ch_eq)

\* The [Section] line that governs line i (0: none, the general section).
HeaderOf(ls, i) ==
  LET hs == {j \in 1..i : IsHeader(ls[j])}
  IN IF hs = {} THEN 0 ELSE CHOOSE j \in hs : \A h \in hs : h <= j

\* Ini::load_from_str: Err, or the text's lines.
load_from_str(t) ==
  LET ls == lines(t)
  IN IF \E i \in 1..Len(ls) : BadLine(ls[i])
     THEN [ok |-> FALSE, ls |-> <<>>]
     ELSE [ok |-> TRUE, ls |-> ls]

\* Ini::section(Some(name)): None, or the properties of that section as
\* <<key, value>> pairs in file order.
section(i, name) ==
  LET ls == i.ls
      named == {j \in 1..Len(ls) :
                  IsHeader(ls[j]) /\ SubSeq(ls[j], 2, Len(ls[j]) - 1) = name}
      mine == SelectSeq([j \in 1..Len(ls) |-> j],
                LAMBDA j : /\ Len(ls[j]) > 0
                           /\ ~IsHeader(ls[j])
                           /\ HeaderOf(ls, j) \in named)
  IN [some |-> named # {},
      props |-> [n \in 1..Len(mine) |->
                   LET l == ls[mine[n]]
                   IN <<SubSeq(l, 1, EqPos(l) - 1), SubSeq(l, EqPos(l) + 1, Len(l))>>]]

\* Option::or
or(a, b) == IF a.some THEN a ELSE b

\* ------------------------------------------------------------- Sharecart
\* #[derive(Default)]
Default ==
  [map_x |-> 0, map_y |-> 0, misc |-> [i \in 0..3 |-> 0],
   player_name |-> <<>>, switch |-> [i \in 0..7 |-> FALSE]]

\* The filter of both directions: c != '\u{0FFFD}' && c != '\r' && c != '\n'
Keep(c) == c # REPL /\ c # CR /\ c # LF

\* Mutation: the cut is one byte short.
load_name_short(v) == SelectSeq(from_utf8_lossy(take(bytes(v), NameTake - 1)), Keep)

\* from_str, "playername" arm.
load_name(v) == SelectSeq(from_utf8_lossy(take(bytes(v), LoadTake)), Keep)

\* Mutation: the parsed coordinate is kept whole.
load_coord_nomod(v) == unwrap_or(parse_u16(v), 0)

\* from_str, "mapx" / "mapy" arms.
load_coord(v) == unwrap_or(parse_u16(v), 0) % CoordMod

\* Mutation: misc values are cut to 10 bits like the coordinates.
load_misc_mod(v) == unwrap_or(parse_u16(v), 0) % CoordMod

\* from_str, "misc0".."misc3" arms.
load_misc(v) == unwrap_or(parse_u16(v), 0)

\* Mutation: the comparison with "true" minds the case.
load_switch_exact(v) == v = L_true

\* from_str, "switch0".."switch7" arms.
load_switch(v) == to_lowercase(v) = L_true

\* A key made of `stem` and one digit below n: the digit, else -1.
Indexed(lower, stem, n) ==
  IF /\ Len(lower) = Len(stem) + 1
     /\ SubSeq(lower, 1, Len(stem)) = stem
     /\ lower[Len(lower)] >= 48
     /\ lower[Len(lower)] < 48 + n
  THEN lower[Len(lower)] - 48
  ELSE -1

\* Mutation: a numeric field that does not parse resets the whole value.
apply_kv_abort(sc, k, v) ==
  LET lower == to_lowercase(k)
      m == Indexed(lower, L_misc, 4)
      s == Indexed(lower, L_switch, 8)
  IN IF (lower = L_mapx \/ lower = L_mapy \/ m # -1) /\ parse_u16(v) = -1
       THEN Default
     ELSE IF lower = L_mapx THEN [sc EXCEPT !.map_x = load_coord(v)]
     ELSE IF lower = L_mapy THEN [sc EXCEPT !.map_y = load_coord(v)]
     ELSE IF m # -1 THEN [sc EXCEPT !.misc[m] = load_misc(v)]
     ELSE IF lower = L_playername THEN [sc EXCEPT !.player_name = load_name(v)]
     ELSE IF s # -1 THEN [sc EXCEPT !.switch[s] = load_switch(v)]
     ELSE sc

\* from_str: one turn of `for (k, v) in properties.iter()`.
apply_kv(sc, k, v) ==
  LET lower == to_lowercase(k)
      m == Indexed(lower, L_misc, 4)
      s == Indexed(lower, L_switch, 8)
  IN IF lower = L_mapx THEN [sc EXCEPT !.map_x = load_coord(v)]
     ELSE IF lower = L_mapy THEN [sc EXCEPT !.map_y = load_coord(v)]
     ELSE IF m # -1 THEN [sc EXCEPT !.misc[m] = load_misc(v)]
     ELSE IF lower = L_playername THEN [sc EXCEPT !.player_name = load_name(v)]
     ELSE IF s # -1 THEN [sc EXCEPT !.switch[s] = load_switch(v)]
     ELSE sc

RECURSIVE apply_all(_, _, _)
apply_all(sc, props, n) ==
  IF n > Len(props) THEN sc
  ELSE apply_all(apply_kv(sc, props[n][1], props[n][2]), props, n + 1)

\* from_str, the Ok(i) arm: the section lookup and the field loop.
from_parsed(i) ==
  LET sec == or(section(i, L_Main), section(i, L_main))
  IN IF sec.some THEN apply_all(Default, sec.props, 1) ELSE Default

\* Mutation: lines the parser rejects are skipped instead of failing the load.
from_str_lenient(buf) ==
  from_parsed([ok |-> TRUE,
               ls |-> SelectSeq(lines(buf), LAMBDA l : ~BadLine(l))])

\* Sharecart::from_str
from_str(buf) ==
  LET i == load_from_str(buf)
  IN IF ~i.ok THEN Default ELSE from_parsed(i)

\* Mutation: CR and LF are dropped before the 1023-byte cut, not after it.
save_name_filter_first(name) ==
  SelectSeq(from_utf8_lossy(take(SelectSeq(bytes(name),
                                           LAMBDA b : b # CR /\ b # LF),
                                 NameTake)),
            LAMBDA c : c # REPL)

\* Mutation: the characters are pushed unfiltered.
save_name_unfiltered(name) == from_utf8_lossy(take(bytes(name), NameTake))

\* to_string: the characters pushed after "PlayerName=".
save_name(name) == SelectSeq(from_utf8_lossy(take(bytes(name), NameTake)), Keep)

\* Mutation: the coordinate is written whole.
save_coord_nomod(n) == fmt(n)

\* to_string, MapX / MapY.
save_coord(n) == fmt(n % CoordMod)

\* to_string, switches.
save_switch(b) == IF b THEN L_TRUE ELSE L_FALSE

kv_line(key, value) == key \o <<Ch_eq>> \o value \o <<LF>>

\* Sharecart::to_string
to_string(sc) ==
  <<Ch_lbr>> \o L_Main \o <<Ch_rbr, LF>>
  \o kv_line(L_MapX, save_coord(sc.map_x))
  \o kv_line(L_MapY, save_coord(sc.map_y))
  \o kv_line(L_Misc \o fmt(0), fmt(sc.misc[0]))
  \o kv_line(L_Misc \o fmt(1), fmt(sc.misc[1]))
  \o kv_line(L_Misc \o fmt(2), fmt(sc.misc[2]))
  \o kv_line(L_Misc \o fmt(3), fmt(sc.misc[3]))
  \o kv_line(L_PlayerName, save_name(sc.player_name))
  \o kv_line(L_Switch \o fmt(0), save_switch(sc.switch[0]))
  \o kv_line(L_Switch \o fmt(1), save_switch(sc.switch[1]))
  \o kv_line(L_Switch \o fmt(2), save_switch(sc.switch[2]))
  \o kv_line(L_Switch \o fmt(3), save_switch(sc.switch[3]))
  \o kv_line(L_Switch \o fmt(4), save_switch(sc.switch[4]))
  \o kv_line(L_Switch \o fmt(5), save_switch(sc.switch[5]))
  \o kv_line(L_Switch \o fmt(6), save_switch(sc.switch[6]))
  \o kv_line(L_Switch \o fmt(7), save_switch(sc.switch[7]))

\* ---------------------------------------------------------------- inputs
E_acute == <<233>>                                   \* "é", C3 A9 in UTF-8
N_Fearless == <<70, 101, 97, 114, 108, 101, 115, 115, 32, 67, 111, 110, 99,
                117, 114, 114, 101, 110, 99, 121>>   \* "Fearless Concurrency"
V_abc == <<97, 98, 99>>                              \* "abc"
V_minus1 == <<45, 49>>                               \* "-1"
V_65536 == <<54, 53, 53, 51, 54>>                    \* "65536"
V_plus7 == <<43, 55>>                                \* "+7"
V_007 == <<48, 48, 55>>                              \* "007"
V_True == <<84, 114, 117, 101>>                      \* "True"
V_TrUe == <<84, 114, 85, 101>>                       \* "TrUe"
V_1 == <<49>>                                        \* "1"
V_yes == <<121, 101, 115>>                           \* "yes"
K_MAPY == <<77, 65, 80, 89>>                         \* "MAPY"
K_SWITCH7 == <<83, 87, 73, 84, 67, 72, 55>>          \* "SWITCH7"
K_Foo == <<70, 111, 111>>                            \* "Foo"
K_Switch8 == <<83, 119, 105, 116, 99, 104, 56>>      \* "Switch8"
K_Misc4 == <<77, 105, 115, 99, 52>>                  \* "Misc4"
L_MAIN == <<77, 65, 73, 78>>                         \* "MAIN"
L_Other == <<79, 116, 104, 101, 114>>                \* "Other"
T_garbage == <<103, 97, 114, 98, 97, 103, 101>>      \* "garbage"
T_unclosed == <<91, 77, 97, 105, 110>>               \* "[Main"

\* "x".repeat(n)
Pad(n) == [i \in 1..n |-> Ch_x]

\* Lengths around the two take() limits.
PadLens == (NameTake - 2)..(NameTake + MaxOver)

\* Player names a caller may assign: any String.
LongNames ==
  {h \o Pad(n) \o t : h \in {<<>>, <<CR>>, E_acute},
                      n \in PadLens,
                      t \in {<<>>, E_acute}}

ShortNames ==
  {<<>>, N_Fearless, <<CR, LF>>, <<Ch_x, LF, Ch_x, CR>>, <<REPL, Ch_x>>,
   E_acute \o <<Ch_eq, Ch_x>>, Pad(2000)}

Names == ShortNames \cup LongNames

\* u16 values for map_x / map_y; HighBits has exactly bits 11..15 set.
HighBits == 63488
CoordInputs == {0, 5, 73, 1023, 1024, 1025, 2047, HighBits, U16Max}

\* (map_x, map_y, misc, switch) of the values a caller starts from.
Profiles ==
  {<<0, 0, [i \in 0..3 |-> 0], [i \in 0..7 |-> FALSE]>>,
   <<73, 1023, [i \in 0..3 |-> IF i = 0 THEN 54 ELSE IF i = 1 THEN 540
                               ELSE IF i = 2 THEN 999 ELSE U16Max],
     [i \in 0..7 |-> i % 2 = 0]>>,
   <<HighBits, HighBits, [i \in 0..3 |-> 0], [i \in 0..7 |-> FALSE]>>,
   <<1025, U16Max, [i \in 0..3 |-> U16Max - i], [i \in 0..7 |-> i # 3]>>}

Carts ==
  {[map_x |-> p[1], map_y |-> p[2], misc |-> p[3],
    player_name |-> n, switch |-> p[4]] : p \in Profiles, n \in Names}

Hdr(name) == <<Ch_lbr>> \o name \o <<Ch_rbr>>

Line(k, v) == k \o <<Ch_eq>> \o v

RECURSIVE Join(_, _)
Join(ls, i) ==
  IF i > Len(ls) THEN <<>>
  ELSE IF i = Len(ls) THEN ls[i]
  ELSE ls[i] \o <<LF>> \o Join(ls, i + 1)

\* MapX=<x> alone in [Main].
CoordText(key, x) == Join(<<Hdr(L_Main), Line(key, fmt(x))>>, 1)

\* Values of PlayerName lines: a line holds no '\n'.
NameValues ==
  {n \in Names : \A i \in 1..Len(n) : n[i] # LF}
    \cup {Pad(LoadTake - 2) \o E_acute, Pad(LoadTake - 1) \o E_acute}

SwitchValues == {L_true, L_TRUE, V_True, V_TrUe, V_1, V_yes, <<>>, L_FALSE}

BadNumbers == {V_abc, <<>>, V_minus1, V_65536}

\* Lines combined two at a time.
MixLines ==
  {Line(L_MapX, V_abc), Line(L_mapx, fmt(7)), Line(L_Misc \o fmt(1), V_65536),
   Line(L_Misc \o fmt(1), V_plus7), Line(L_Switch \o fmt(3), L_TRUE),
   Line(L_PlayerName, N_Fearless), Line(K_Foo, fmt(5)), Line(L_MapY, V_minus1)}

Texts ==
  {<<>>, Hdr(L_Main), Hdr(L_main), T_garbage, T_unclosed,
   Line(L_MapX, fmt(5)),
   Join(<<Hdr(L_Main), T_garbage>>, 1),
   Join(<<Hdr(L_Main), Line(L_MapX, fmt(5)), T_garbage>>, 1),
   Join(<<Hdr(L_MAIN), Line(L_MapX, fmt(5))>>, 1),
   Join(<<Hdr(L_Other), Line(L_MapX, fmt(5))>>, 1),
   Join(<<Hdr(L_main), Line(L_MapX, fmt(5)), Line(L_Switch \o fmt(0), L_true)>>, 1),
   Join(<<Hdr(L_main), Line(L_MapX, fmt(5)), Hdr(L_Main), Line(L_MapY, fmt(6))>>, 1),
   Join(<<Hdr(L_Main), Line(L_MapX, fmt(5)), Hdr(L_Other), Line(L_MapY, fmt(6))>>, 1),
   Join(<<Hdr(L_Main), Line(L_MapX, fmt(73)), Line(L_MapY, fmt(1023))>>, 1),
   Join(<<Hdr(L_Main), Line(K_MAPY, fmt(2047)), <<>>, Line(K_SWITCH7, V_TrUe)>>, 1),
   Join(<<Hdr(L_Main), Line(K_Switch8, L_TRUE), Line(K_Misc4, fmt(9))>>, 1),
   Join(<<Hdr(L_Main), Line(L_Misc \o fmt(2), V_007)>>, 1)}
  \cup {CoordText(L_MapX, x) : x \in CoordInputs}
  \cup {CoordText(L_MapY, x) : x \in CoordInputs}
  \cup {Join(<<Hdr(L_Main), Line(k, v)>>, 1) :
          k \in {L_MapX, L_MapY, L_Misc \o fmt(0), L_Misc \o fmt(3)},
          v \in BadNumbers}
  \cup {Join(<<Hdr(L_Main), Line(L_Switch \o fmt(i), v)>>, 1) :
          i \in {0, 7}, v \in SwitchValues}
  \cup {Join(<<Hdr(L_Main), Line(L_PlayerName, n)>>, 1) : n \in NameValues}
  \cup {Join(<<Hdr(L_Main), a, b>>, 1) : a \in MixLines, b \in MixLines}

\* ----------------------------------------------------------------- state
VARIABLES
  sc,      \* the Sharecart value the caller holds
  buf,     \* the text of o_o.ini
  op,      \* the operation that produced this state
  saved,   \* the Sharecart value to_string was last called on
  origin,  \* "file": buf was written by someone else; "saved": by to_string
  first    \* the Sharecart value the caller started from

vars == <<sc, buf, op, saved, origin, first>>

\* The caller holds a value built field by field and the file is absent
\* (empty), or holds the default value and the file is somebody's text.
Init ==
  /\ \/ sc \in Carts /\ buf = <<>>
     \/ sc = Default /\ buf \in Texts
  /\ op = "init"
  /\ saved = Default
  /\ origin = "file"
  /\ first = sc

\* buf = sc.to_string()
ToString ==
  /\ buf' = to_string(sc)
  /\ saved' = sc
  /\ origin' = "saved"
  /\ op' = "to_string"
  /\ UNCHANGED <<sc, first>>

\* sc = Sharecart::from_str(buf)
FromStr ==
  /\ sc' = from_str(buf)
  /\ op' = "from_str"
  /\ UNCHANGED <<buf, saved, origin, first>>

Next == ToString \/ FromStr

Spec == Init /\ [][Next]_vars

\* ------------------------------------------------------------ properties
\* Length in bytes of the UTF-8 form of a text.
ByteLen(n) ==
  Len(n) + Cardinality({i \in 1..Len(n) : n[i] >= 128})
         + Cardinality({i \in 1..Len(n) : n[i] >= 2048})
         + Cardinality({i \in 1..Len(n) : n[i] >= 65536})

NameCanonical(n) ==
  /\ ByteLen(n) <= 1023
  /\ \A i \in 1..Len(n) : n[i] # CR /\ n[i] # LF /\ n[i] # REPL

\* Canonical form of the specification, section 3.
Canonical(r) ==
  /\ r.map_x \in 0..1023
  /\ r.map_y \in 0..1023
  /\ NameCanonical(r.player_name)

IsAscii(n) == \A i \in 1..Len(n) : n[i] < 128

DropCRLF(n) == SelectSeq(n, LAMBDA c : c # CR /\ c # LF)

RoundTrip == op = "from_str" /\ origin = "saved"

\* The <<key, value>> pairs from_str is to go through: those of [Main],
\* else of [main], none when the text does not parse.
MainProps(t) ==
  LET i == load_from_str(t)
  IN IF i.ok THEN or(section(i, L_Main), section(i, L_main)).props ELSE <<>>

\* The text of a [Main] section holding the pairs ps.
TextOf(ps) == Join(<<Hdr(L_Main)>> \o [n \in 1..Len(ps) |-> Line(ps[n][1], ps[n][2])], 1)

\* The keys to_string writes, in order.
KeyOrder ==
  <<L_MapX, L_MapY, L_Misc \o <<48>>, L_Misc \o <<49>>, L_Misc \o <<50>>,
    L_Misc \o <<51>>, L_PlayerName,
    L_Switch \o <<48>>, L_Switch \o <<49>>, L_Switch \o <<50>>,
    L_Switch \o <<51>>, L_Switch \o <<52>>, L_Switch \o <<53>>,
    L_Switch \o <<54>>, L_Switch \o <<55>>>>

\* What follows "PlayerName=" in a text to_string wrote.
NameValueOf(t) ==
  LET l == lines(t)[8] IN SubSeq(l, Len(L_PlayerName) + 2, Len(l))

\* C1: a Sharecart value in canonical form comes back from
\* from_str(to_string(r)) equal to itself, field for field.
C1_RoundTripFixpoint == RoundTrip /\ Canonical(saved) => sc = saved

C1_Witness ==
  /\ RoundTrip
  /\ Canonical(saved)
  /\ ByteLen(saved.player_name) = 1023
  /\ saved.map_y = 1023
  /\ saved.misc[3] = 65535
  /\ sc = saved

\* C2: whatever the text, the value from_str returns has map_x and map_y in
\* 0..1023 and a player_name of at most 1023 bytes without CR, LF, U+FFFD.
C2_DecodeOutputCanonical == op = "from_str" => Canonical(sc)

\* C3: to_string writes [Main] and then the fifteen Key=Value lines in the
\* fixed order and casing, each key once, '\n' after every line, no '\r'
\* anywhere; for the default value it writes the all-zero, all-FALSE text.
C3_EncodeShape ==
  op = "to_string" =>
    LET ls == lines(buf)
    IN /\ Len(ls) = 17
       /\ ls[17] = <<>>
       /\ ls[1] = <<91, 77, 97, 105, 110, 93>>
       /\ \A j \in 1..15 :
            /\ HasEq(ls[j + 1])
            /\ SubSeq(ls[j + 1], 1, EqPos(ls[j + 1]) - 1) = KeyOrder[j]
       /\ \A i \in 1..Len(buf) : buf[i] # CR
       /\ saved = Default =>
            buf = Join(<<Hdr(L_Main)>>
                       \o [j \in 1..15 |->
                             KeyOrder[j] \o <<61>>
                             \o (IF j <= 6 THEN <<48>>
                                 ELSE IF j = 7 THEN <<>> ELSE L_FALSE)]
                       \o <<(<<>>)>>, 1)

C3_Witness ==
  /\ op = "to_string"
  /\ \E i \in 1..Len(saved.player_name) : saved.player_name[i] = CR
  /\ ByteLen(saved.player_name) > 1023
  /\ saved.map_x > 1023
  /\ Len(lines(buf)) = 17

\* C4: from_str returns the default value when the parser reports a syntax
\* error and when the text has no section named Main or main; the empty
\* text and the text "[Main]" both give the default value.
C4_DocumentDefault ==
  op = "from_str" =>
    /\ ~load_from_str(buf).ok => sc = Default
    /\ (\A j \in 1..Len(lines(buf)) :
          lines(buf)[j] # <<91, 77, 97, 105, 110, 93>>
          /\ lines(buf)[j] # <<91, 109, 97, 105, 110, 93>>) => sc = Default
    /\ buf \in {<<>>, <<91, 77, 97, 105, 110, 93>>} => sc = Default

C4_Witness ==
  /\ op = "from_str"
  /\ buf = Join(<<Hdr(L_Main), Line(L_MapX, <<53>>), T_garbage>>, 1)
  /\ sc = Default

\* C5 as stated: what to_string writes after "PlayerName=" is the name's
\* bytes with every CR and LF dropped first, then cut to 1023 bytes, then
\* repaired and freed of U+FFFD.
C5_FilterThenCut ==
  op = "to_string" =>
    NameValueOf(buf)
      = SelectSeq(from_utf8_lossy(take(SelectSeq(bytes(saved.player_name),
                                                 LAMBDA b : b # CR /\ b # LF),
                                       1023)),
                  LAMBDA c : c # REPL)

\* The longest prefix of n whose UTF-8 form fits in max bytes.
FitPrefix(n, max) ==
  LET d == CHOOSE d \in 0..Len(n) :
             /\ ByteLen(SubSeq(n, 1, Len(n) - d)) <= max
             /\ \A e \in 0..(d - 1) : ByteLen(SubSeq(n, 1, Len(n) - e)) > max
  IN SubSeq(n, 1, Len(n) - d)

\* C5 amended: what to_string writes after "PlayerName=" is the name cut to
\* its first 1023 bytes (a character the cut splits is lost), and after
\* that freed of every CR, LF and U+FFFD.
C5_CutThenFilter ==
  op = "to_string" =>
    NameValueOf(buf)
      = SelectSeq(FitPrefix(saved.player_name, 1023),
                  LAMBDA c : c # CR /\ c # LF /\ c # REPL)

C5_Witness ==
  /\ op = "to_string"
  /\ saved.player_name = <<CR>> \o Pad(1023)
  /\ NameValueOf(buf) = Pad(1022)

\* C6: MapX=<x> decodes to x mod 1024 for every u16 x, MapY likewise;
\* from_str(to_string(r)) has r's coordinates mod 1024; a default value
\* with bits 11..15 of both coordinates set comes back as the default.
C6_CoordTruncation ==
  /\ op = "from_str" /\ origin = "file" =>
       \A x \in CoordInputs :
         /\ buf = CoordText(L_MapX, x) => sc.map_x = x % 1024
         /\ buf = CoordText(L_MapY, x) => sc.map_y = x % 1024
  /\ op = "from_str" /\ buf = CoordText(L_MapX, 0) =>
       \A x \in 0..65535 :
         apply_kv(Default, L_MapX, fmt(x)).map_x = x % 1024
  /\ RoundTrip =>
       /\ sc.map_x = saved.map_x % 1024
       /\ sc.map_y = saved.map_y % 1024
       /\ saved = [Default EXCEPT !.map_x = 63488, !.map_y = 63488] =>
            sc = Default

C6_Witness ==
  /\ RoundTrip
  /\ saved = [Default EXCEPT !.map_x = 63488, !.map_y = 63488]
  /\ sc = Default

\* C7 as stated: an all-ASCII name comes back from from_str(to_string(r))
\* with every CR and LF removed and, after that, cut to 1023 bytes.
C7_RemoveThenCut ==
  RoundTrip /\ IsAscii(saved.player_name) =>
    sc.player_name = take(DropCRLF(saved.player_name), 1023)

\* C7 amended: an all-ASCII name comes back from from_str(to_string(r)) cut
\* to its first 1023 bytes and, after that, with every CR and LF removed;
\* "\r\n" comes back empty, 2000 ASCII characters come back as 1023.
C7_CutThenRemove ==
  RoundTrip /\ IsAscii(saved.player_name) =>
    /\ sc.player_name = DropCRLF(SubSeq(saved.player_name, 1,
                                        Min(1023, Len(saved.player_name))))
    /\ saved.player_name = <<CR, LF>> => sc.player_name = <<>>
    /\ saved.player_name = Pad(2000) =>
         /\ Len(sc.player_name) = 1023
         /\ \A i \in 1..1023 : sc.player_name[i] # REPL

C7_Witness ==
  /\ RoundTrip
  /\ saved.player_name = Pad(2000)
  /\ sc.player_name = Pad(1023)

EqualsTrueIgnoringCase(v) ==
  /\ Len(v) = 4
  /\ v[1] \in {116, 84}
  /\ v[2] \in {114, 82}
  /\ v[3] \in {117, 85}
  /\ v[4] \in {101, 69}

\* The key of switch i, whatever its casing, occurs in ps and its last
\* value is "true" in some casing.
SwitchOn(ps, i) ==
  LET at == {n \in 1..Len(ps) :
               /\ Len(ps[n][1]) = 7
               /\ \A c \in 1..6 : ps[n][1][c] \in {L_switch[c], L_switch[c] - 32}
               /\ ps[n][1][7] = 48 + i}
  IN /\ at # {}
     /\ EqualsTrueIgnoringCase(ps[CHOOSE n \in at : \A m \in at : m <= n][2])

\* C8: from_str sets switch i exactly when the section holds a SwitchI key
\* whose value is "true" in any casing; to_string writes TRUE or FALSE;
\* the switches come back from from_str(to_string(r)) unchanged.
C8_Switches ==
  /\ op = "from_str" =>
       \A i \in 0..7 : sc.switch[i] = SwitchOn(MainProps(buf), i)
  /\ op = "to_string" =>
       \A i \in 0..7 :
         lines(buf)[9 + i]
           = KeyOrder[8 + i] \o <<61>>
             \o (IF saved.switch[i] THEN <<84, 82, 85, 69>>
                 ELSE <<70, 65, 76, 83, 69>>)
  /\ RoundTrip => sc.switch = saved.switch

C8_Witness ==
  /\ op = "from_str"
  /\ origin = "file"
  /\ \E ps \in {MainProps(buf)} :
       /\ Len(ps) = 2
       /\ ps[2] = <<K_SWITCH7, V_TrUe>>
  /\ sc.switch[7]
  /\ ~sc.switch[0]

\* A key of one of the six numeric fields, in any casing.
NumericKey(k) ==
  LET lower == [c \in 1..Len(k) |-> IF k[c] >= 65 /\ k[c] <= 90 THEN k[c] + 32 ELSE k[c]]
  IN lower \in {L_mapx, L_mapy, L_misc \o <<48>>, L_misc \o <<49>>,
                L_misc \o <<50>>, L_misc \o <<51>>}

KnownKey(k) ==
  LET lower == [c \in 1..Len(k) |-> IF k[c] >= 65 /\ k[c] <= 90 THEN k[c] + 32 ELSE k[c]]
  IN \/ NumericKey(k)
     \/ lower = L_playername
     \/ \E i \in 0..7 : lower = L_switch \o <<48 + i>>

Without(ps, n) == [m \in 1..(Len(ps) - 1) |-> IF m < n THEN ps[m] ELSE ps[m + 1]]

SameKey(k1, k2) ==
  /\ Len(k1) = Len(k2)
  /\ \A c \in 1..Len(k1) : k1[c] = k2[c] \/ k1[c] = k2[c] + 32 \/ k2[c] = k1[c] + 32

\* The numeric field of r that key k names.
FieldOf(r, k) ==
  IF SameKey(k, L_mapx) THEN r.map_x
  ELSE IF SameKey(k, L_mapy) THEN r.map_y
  ELSE r.misc[k[Len(k)] - 48]

\* C9: a numeric field whose value is no u16 decodes as if the value were
\* 0: that field is 0 (unless a later line sets it) and every other field
\* is what it would have been; a key that names no field changes nothing.
C9_LocalFailure ==
  op = "from_str" /\ origin = "file" =>
    LET ps == MainProps(buf)
    IN \A n \in 1..Len(ps) :
         /\ NumericKey(ps[n][1]) /\ parse_u16(ps[n][2]) = -1 =>
              /\ sc = from_str(TextOf([ps EXCEPT ![n] = <<ps[n][1], <<48>>>>]))
              /\ (\A m \in (n + 1)..Len(ps) : ~SameKey(ps[m][1], ps[n][1])) =>
                   FieldOf(sc, ps[n][1]) = 0
         /\ ~KnownKey(ps[n][1]) => sc = from_str(TextOf(Without(ps, n)))

C9_Witness ==
  /\ op = "from_str"
  /\ buf = Join(<<Hdr(L_Main), Line(L_Switch \o <<51>>, L_TRUE), Line(L_MapX, V_abc)>>, 1)
  /\ sc = [Default EXCEPT !.switch[3] = TRUE]

\* C10: whatever value r is saved, r1 = from_str(to_string(r)) is in
\* canonical form, to_string(r1) is the text to_string(r) and
\* from_str(to_string(r1)) is r1 again.
C10_Idempotent ==
  RoundTrip =>
    /\ Canonical(sc)
    /\ to_string(sc) = buf
    /\ from_str(to_string(sc)) = sc

C10_Witness ==
  /\ RoundTrip
  /\ saved = sc
  /\ first.player_name = Pad(1022) \o E_acute
  /\ first.map_x = 1025
  /\ sc.player_name = Pad(1022)
  /\ sc.map_x = 1

====
